---------------------------- MODULE Spec2Model ----------------------------
(***************************************************************************)
(* Model of src/api/eth.js: the batched block/log fetchers getBlocks and   *)
(* getBlocksFromArray of the Eth object, their hexadecimal conversions,    *)
(* and the batch transport they await.                                     *)
(*                                                                         *)
(* JavaScript values are tagged records: a number is [t |-> "number",      *)
(* n |-> 26], a string is [t |-> "string", s |-> <<"0","x","1","a">>] (a   *)
(* sequence of one-character strings), NaN and undefined are their own     *)
(* tags.  A block object is a record whose numeric fields hold such        *)
(* values, so that a field can hold the hexadecimal string of the wire or  *)
(* the number the fetcher assigns over it.                                 *)
(***************************************************************************)
EXTENDS Integers, Sequences, FiniteSets

\* Longest block range / block list a caller asks for.
MaxLen == 2

\* Longest logs array the node returns for a range.
MaxLogs == 2

\* How many times the mocked transport hands back one canned response.
MaxServes == 2

\* Longest range or list, and most logs in one response, of an invocation
\* that is in flight together with another.
MaxConcurrent == 1

\* First block numbers the callers use: 0 (toBlock - 1 may be negative) and
\* 15 (the range crosses from one hexadecimal digit to two).
Starts == {0, 15}

\* Block numbers the callers put in explicit lists.
ListBlocks == {15, 16}

\* The invocations in flight on one Eth object.
Callers == {"c1", "c2"}

-----------------------------------------------------------------------------
(* JavaScript values *)

Num(n) == [t |-> "number", n |-> n]

Str(s) == [t |-> "string", s |-> s]

NaN == [t |-> "NaN"]

Undefined == [t |-> "undefined"]

Arr(a) == [t |-> "array", a |-> a]

IsNum(v) == v.t = "number"

\* The digits of Number.prototype.toString and of parseInt, by value.
DigitChars ==
    <<"0", "1", "2", "3", "4", "5", "6", "7", "8", "9",
      "a", "b", "c", "d", "e", "f">>

RECURSIVE Numeral(_, _)
\* The digits of the natural number n in the given radix.
Numeral(n, radix) ==
    IF n < radix
    THEN <<DigitChars[n + 1]>>
    ELSE Numeral(n \div radix, radix) \o <<DigitChars[(n % radix) + 1]>>

\* Number.prototype.toString(radix) of an integer: a minus sign, then digits.
NumberToString(n, radix) ==
    IF n < 0 THEN <<"-">> \o Numeral(0 - n, radix) ELSE Numeral(n, radix)

\* ToString of a value, as parseInt applies it to its first argument.
ToStringJS(v) ==
    CASE v.t = "number" -> NumberToString(v.n, 10)
      [] v.t = "string" -> v.s
      [] v.t = "NaN" -> <<"N", "a", "N">>
      [] OTHER -> <<"u", "n", "d", "e", "f", "i", "n", "e", "d">>

\* The value of character ch as a digit of the radix, or -1.
DigitValue(ch, radix) ==
    IF \E d \in 1..radix : DigitChars[d] = ch
    THEN (CHOOSE d \in 1..radix : DigitChars[d] = ch) - 1
    ELSE -1

RECURSIVE DigitPrefix(_, _)
\* The longest prefix of s made of digits of the radix.
DigitPrefix(s, radix) ==
    IF s = <<>> \/ DigitValue(Head(s), radix) < 0
    THEN <<>>
    ELSE <<Head(s)>> \o DigitPrefix(Tail(s), radix)

RECURSIVE DigitsValue(_, _)
DigitsValue(s, radix) ==
    IF s = <<>>
    THEN 0
    ELSE DigitsValue(SubSeq(s, 1, Len(s) - 1), radix) * radix
         + DigitValue(s[Len(s)], radix)

\* parseInt on the digits z it has found: NaN when there are none.
ParseDigits(z, radix, sign) ==
    IF z = <<>> THEN NaN ELSE Num(sign * DigitsValue(z, radix))

\* parseInt after the sign: for radix 16 an optional 0x, then the longest run
\* of digits.
ParseUnsigned(s, radix, sign) ==
    ParseDigits(
        DigitPrefix(IF radix = 16 /\ Len(s) >= 2 /\ s[1] = "0" /\ s[2] = "x"
                    THEN SubSeq(s, 3, Len(s))
                    ELSE s,
                    radix),
        radix, sign)

\* parseInt on the string of its argument: an optional minus sign first.
ParseString(str, radix) ==
    IF str # <<>> /\ Head(str) = "-"
    THEN ParseUnsigned(Tail(str), radix, -1)
    ELSE ParseUnsigned(str, radix, 1)

\* parseInt(v, radix)
parseInt(v, radix) == ParseString(ToStringJS(v), radix)

\* A slip: the string read as a decimal numeral.
parseInt10(int) == parseInt(int, 10)

parseInt16(int) == parseInt(int, 16)

\* '0x' + n.toString(16)
Hex(n) == <<"0", "x">> \o NumberToString(n, 16)


Bool(b) == [t |-> "boolean", b |-> b]

-----------------------------------------------------------------------------
(* Requests: what this.client.request(method, params, undefined, false)    *)
(* hands to the batch.                                                     *)

\* function formatLogOptions(fromBlock, toBlock)
formatLogOptions(fromBlock, toBlock) ==
    [t |-> "object", fromBlock |-> Hex(fromBlock), toBlock |-> Hex(toBlock)]

\* this.client.request('eth_getBlockByNumber', ['0x' + i.toString(16), true], ..)
BlockRequest(i) ==
    [method |-> "eth_getBlockByNumber", params |-> <<Str(Hex(i)), Bool(TRUE)>>]

\* this.client.request('eth_getLogs', [options], ..)
LogsRequest(options) ==
    [method |-> "eth_getLogs", params |-> <<options>>]

\* let batch = []
EmptyBatch == <<>>

\* A slip: the logs request scoped to toBlock itself.
getBlocksBatchInclusive(fromBlock, toBlock) ==
    [k \in 1..(IF toBlock > fromBlock THEN toBlock - fromBlock ELSE 0) |->
        BlockRequest(fromBlock + k - 1)]
    \o <<LogsRequest(formatLogOptions(fromBlock, toBlock))>>

\* getBlocks up to its await: one block request per i in [fromBlock, toBlock),
\* then the logs request for formatLogOptions(fromBlock, toBlock - 1).
getBlocksBatch(fromBlock, toBlock) ==
    EmptyBatch
    \o [k \in 1..(IF toBlock > fromBlock THEN toBlock - fromBlock ELSE 0) |->
           BlockRequest(fromBlock + k - 1)]
    \o <<LogsRequest(formatLogOptions(fromBlock, toBlock - 1))>>

\* A slip: the block requests first, the logs requests after them.
getBlocksFromArrayBatchGrouped(blockNumbers) ==
    [k \in 1..Len(blockNumbers) |-> BlockRequest(blockNumbers[k])]
    \o [k \in 1..Len(blockNumbers) |->
           LogsRequest(formatLogOptions(blockNumbers[k], blockNumbers[k]))]

RECURSIVE getBlocksFromArrayBatch(_)
\* getBlocksFromArray up to its await: for each bn, its block request and then
\* its logs request for formatLogOptions(bn, bn).
getBlocksFromArrayBatch(blockNumbers) ==
    IF blockNumbers = <<>>
    THEN EmptyBatch
    ELSE getBlocksFromArrayBatch(SubSeq(blockNumbers, 1, Len(blockNumbers) - 1))
         \o <<BlockRequest(blockNumbers[Len(blockNumbers)]),
              LogsRequest(formatLogOptions(blockNumbers[Len(blockNumbers)],
                                           blockNumbers[Len(blockNumbers)]))>>

-----------------------------------------------------------------------------
(* Responses and the continuations after the await.                        *)

\* What the continuations throw.
TypeError == "TypeError"

MismatchError == "Error during fetch of logs. Log block hash differs from block hash"

\* res.result: undefined on an element that carries an error instead.
Result(res) == IF "result" \in DOMAIN res THEN res.result ELSE Undefined

IsUndefined(v) == "t" \in DOMAIN v /\ v.t = "undefined"

\* Object.assign(block, {number: parseInt16(block.number),
\*                       timestamp: parseInt16(block.timestamp)})
AssignNumbers(block) ==
    [block EXCEPT !.number = parseInt16(block.number),
                  !.timestamp = parseInt16(block.timestamp)]

\* The first element whose result is undefined: reading its number throws.
FirstUndefined(results) ==
    IF \E k \in 1..Len(results) : IsUndefined(results[k])
    THEN CHOOSE k \in 1..Len(results) :
            /\ IsUndefined(results[k])
            /\ \A j \in 1..(k - 1) : ~IsUndefined(results[j])
    ELSE 0

\* A slip: the first log of a block replaces the block's logs each time.
PushLogReplacing(block, log) == [block EXCEPT !.logs = Arr(<<log>>)]

\* block.logs ? block.logs.push(log) : block.logs = [...[log]]
PushLog(block, log) ==
    IF block.logs.t = "array"
    THEN [block EXCEPT !.logs = Arr(block.logs.a \o <<log>>)]
    ELSE [block EXCEPT !.logs = Arr(<<log>>)]

\* A slip: a log whose hash differs is merged like any other.
HashDiffersNever(log, block) == FALSE

\* log.blockHash !== block.hash
HashDiffers(log, block) == log.blockHash # block.hash

\* logBlockNumber - fromBlock; NaN (no index of the array) when the number
\* did not parse.
IndexFrom(logBlockNumber, fromBlock) ==
    IF IsNum(logBlockNumber) THEN logBlockNumber.n - fromBlock ELSE -1

\* const index = parseInt16(log.blockNumber) - fromBlock
IndexOf(log, fromBlock) == IndexFrom(parseInt16(log.blockNumber), fromBlock)

RECURSIVE MergeLogs(_, _, _, _)

\* The forEach callback on log i, whose block is blocks[index].
MergeLog(blocks, logs, i, fromBlock, index) ==
    IF index < 0 \/ index >= Len(blocks)
    THEN [blocks |-> blocks, threw |-> TypeError]
    ELSE IF HashDiffers(logs[i], blocks[index + 1])
    THEN [blocks |-> blocks, threw |-> MismatchError]
    ELSE MergeLogs(
            [blocks EXCEPT ![index + 1] = PushLog(blocks[index + 1], logs[i])],
            logs, i + 1, fromBlock)

\* logs.forEach(log => ...) from log i on: blocks as merged so far; stops at
\* the first throw (blocks[index] undefined, or the hashes differ).
MergeLogs(blocks, logs, i, fromBlock) ==
    IF i > Len(logs)
    THEN [blocks |-> blocks, threw |-> ""]
    ELSE MergeLog(blocks, logs, i, fromBlock, IndexOf(logs[i], fromBlock))

\* The response objects as the continuation leaves them: the first Len(blocks)
\* results are the (mutated) block objects.
Mutated(responses, blocks) ==
    [k \in 1..Len(responses) |->
        IF k <= Len(blocks) THEN [result |-> blocks[k]] ELSE responses[k]]

\* The async function throws: its promise rejects, no value is returned.
Throws(reason, responses) ==
    [pc |-> "rejected", value |-> <<>>, reason |-> reason,
     responses |-> responses]

\* The async function returns blocks: its promise fulfils with them.
Returns(blocks, responses) ==
    [pc |-> "fulfilled", value |-> blocks, reason |-> "",
     responses |-> responses]

\* responses.slice(0, -1).map(res => res.result)
BlockResults(responses) ==
    [k \in 1..(Len(responses) - 1) |-> Result(responses[k])]

\* .map(block => Object.assign(block, ..)) up to the first undefined block,
\* whose index is bad (0: none).
AssignedUpTo(results, bad) ==
    [k \in 1..(IF bad = 0 THEN Len(results) ELSE bad - 1) |->
        AssignNumbers(results[k])]

\* `return blocks`, or the throw of the forEach callback.
AfterMerge(responses, merged) ==
    IF merged.threw # ""
    THEN Throws(merged.threw, Mutated(responses, merged.blocks))
    ELSE Returns(merged.blocks, Mutated(responses, merged.blocks))

\* From `const logs = ..` on, the blocks being `assigned`.
AfterMap(fromBlock, responses, bad, assigned, logs) ==
    IF bad # 0 \/ IsUndefined(logs)
    THEN Throws(TypeError, Mutated(responses, assigned))
    ELSE AfterMerge(responses, MergeLogs(assigned, logs.a, 1, fromBlock))

\* The map over the block results, then the rest.
AfterSlice(fromBlock, responses, results, bad) ==
    AfterMap(fromBlock, responses, bad, AssignedUpTo(results, bad),
             Result(responses[Len(responses)]))

\* getBlocks after its await (responses in hand) to its return or throw.
getBlocksContinue(fromBlock, responses) ==
    AfterSlice(fromBlock, responses, BlockResults(responses),
               FirstUndefined(BlockResults(responses)))

\* Object.assign(block, {number: .., timestamp: .., logs: responses[i + 1].result})
AssignPair(block, logsResult) ==
    [AssignNumbers(block) EXCEPT !.logs = logsResult]

\* A slip: the loop steps by one pair but reads the logs of the first pair.
PairsOfFirstLogs(responses) ==
    [k \in 1..(Len(responses) \div 2) |->
        [block |-> Result(responses[2 * k - 1]), logs |-> Result(responses[2])]]

\* for (let i = 0; i < responses.length - 1; i += 2): the pairs the loop visits.
Pairs(responses) ==
    [k \in 1..(Len(responses) \div 2) |->
        [block |-> Result(responses[2 * k - 1]), logs |-> Result(responses[2 * k])]]

\* The response objects as the loop leaves them: the block objects of the
\* pairs it has assigned to are the (mutated) blocks.
MutatedPairs(responses, blocks) ==
    [k \in 1..Len(responses) |->
        IF k % 2 = 1 /\ (k + 1) \div 2 <= Len(blocks)
        THEN [result |-> blocks[(k + 1) \div 2]]
        ELSE responses[k]]

\* blocks.push(Object.assign(block, ..)) for each pair up to the first whose
\* block is undefined (its index is bad; 0: none).
AssignedPairsUpTo(pairs, bad) ==
    [k \in 1..(IF bad = 0 THEN Len(pairs) ELSE bad - 1) |->
        AssignPair(pairs[k].block, pairs[k].logs)]

\* `return blocks`, or the throw of reading block.number of undefined.
AfterLoop(responses, bad, blocks) ==
    IF bad # 0
    THEN Throws(TypeError, MutatedPairs(responses, blocks))
    ELSE Returns(blocks, MutatedPairs(responses, blocks))

\* The loop over the pairs.
LoopOver(responses, pairs, bad) ==
    AfterLoop(responses, bad, AssignedPairsUpTo(pairs, bad))

\* The blocks of the pairs, in order.
PairBlocks(pairs) == [k \in 1..Len(pairs) |-> pairs[k].block]

\* getBlocksFromArray after its await to its return or throw.
getBlocksFromArrayContinue(responses) ==
    LoopOver(responses, Pairs(responses),
             FirstUndefined(PairBlocks(Pairs(responses))))


-----------------------------------------------------------------------------
(* The transport: the node's answers to a batch, in submission order, and  *)
(* a mocked transport that keeps one canned response and hands it back.    *)

TransportFailure == "transport failure"

RpcError == "rpc error"

ErrorElement == [error |-> RpcError]

\* The hash of block n on the canonical chain (fork 0) or on a stale fork.
Hash(n, fork) == [block |-> n, fork |-> fork]

\* Seconds since the epoch of block n.
TimestampOf(n) == 1000 + n

\* A block as eth_getBlockByNumber returns it: hexadecimal strings, no logs.
WireBlock(n) ==
    [number |-> Str(Hex(n)), timestamp |-> Str(Hex(TimestampOf(n))),
     hash |-> Hash(n, 0), logs |-> Undefined]

\* A log as eth_getLogs returns it.
WireLog(n, fork, logIndex) ==
    [blockNumber |-> Str(Hex(n)), blockHash |-> Hash(n, fork),
     logIndex |-> logIndex]

\* The blocks lo..hi a logs request covers, on either fork, and one block
\* past them: the node may return logs of a stale fork, or of a block outside
\* the range asked for.  A bound the node cannot read covers nothing.
OriginsIn(lo, hi) ==
    {<<n, fork>> : n \in (IF IsNum(hi) THEN lo.n..hi.n ELSE {}), fork \in 0..1}
    \cup {<<IF IsNum(hi) /\ hi.n >= lo.n THEN hi.n + 1 ELSE lo.n, 0>>}

\* The node's reading of a hexadecimal quantity.
Quantity(s) == parseInt(Str(s), 16)

LogOrigins(request) ==
    OriginsIn(Quantity(request.params[1].fromBlock),
              Quantity(request.params[1].toBlock))

\* The logs arrays of m logs the node may return for the request.
LogArrays(request, m) ==
    {[i \in 1..m |-> WireLog(f[i][1], f[i][2], i)] :
        f \in [1..m -> LogOrigins(request)]}

RECURSIVE Answers(_, _, _)
\* The error-free answers to requests k.. of the batch, with at most `budget`
\* logs in all.
Answers(batch, k, budget) ==
    IF k > Len(batch)
    THEN {<<>>}
    ELSE IF batch[k].method = "eth_getBlockByNumber"
    THEN {<<[result |-> WireBlock(Quantity(batch[k].params[1].s).n)]>> \o rest :
            rest \in Answers(batch, k + 1, budget)}
    ELSE UNION {
            {<<[result |-> Arr(logs)]>> \o rest :
                logs \in LogArrays(batch[k], m),
                rest \in Answers(batch, k + 1, budget - m)} :
            m \in 0..budget}

\* The answers, and each with one element replaced by an error element.
WithErrors(clean, n) ==
    clean \cup {[r EXCEPT ![k] = ErrorElement] : r \in clean, k \in 1..n}

\* The batch responses of the transport: one element per request, in
\* submission order, at most one of them an error element.
Responses(batch, budget) == WithErrors(Answers(batch, 1, budget), Len(batch))

-----------------------------------------------------------------------------
VARIABLES
    calls,  \* per caller: the invocation it last made on the Eth object
    mock    \* the canned response object a mocked transport keeps

vars == <<calls, mock>>

NoOutcome == [pc |-> "none", value |-> <<>>, reason |-> ""]

Idle ==
    [pc |-> "idle", method |-> "", fromBlock |-> 0, toBlock |-> 0,
     blockNumbers |-> <<>>, sent |-> <<>>, answered |-> FALSE,
     handed |-> <<>>, served |-> 0, first |-> NoOutcome,
     value |-> <<>>, reason |-> ""]

NoMock ==
    [installed |-> FALSE, method |-> "", batch |-> <<>>, responses |-> <<>>,
     served |-> 0, first |-> NoOutcome]

Init ==
    /\ calls = [c \in Callers |-> Idle]
    /\ mock = NoMock

\* The mock keeps its canned response while the same method is invoked again
\* with the same batch.
MockSees(method, batch) ==
    IF /\ mock.installed
       /\ mock.method = method
       /\ mock.batch = batch
       /\ mock.served < MaxServes
    THEN mock
    ELSE NoMock

\* What the transport may resolve the batch of caller c with: the mock its
\* canned response object (as it is by now), the node a new response.
TransportAnswers(c, canned, budget) ==
    IF calls[c].pc # "awaiting"
    THEN {}
    ELSE IF mock.installed
    THEN IF canned THEN {mock.responses} ELSE {}
    ELSE Responses(calls[c].sent[1], budget)

\* The mock after it has handed `responses` to an invocation that left them
\* as `after` and settled as `outcome`.
MockServed(c, after, outcome) ==
    IF mock.installed
    THEN [mock EXCEPT !.responses = after, !.served = @ + 1]
    ELSE [installed |-> TRUE, method |-> calls[c].method,
          batch |-> calls[c].sent[1], responses |-> after,
          served |-> 1, first |-> outcome]

\* A slip: fromBlock kept on the shared object, so that the continuation reads
\* what the latest pending invocation stored there.
fromBlockShared(c) ==
    IF \E d \in Callers \ {c} :
          calls[d].pc = "awaiting" /\ calls[d].method = "getBlocks"
    THEN calls[CHOOSE d \in Callers \ {c} :
          calls[d].pc = "awaiting" /\ calls[d].method = "getBlocks"].fromBlock
    ELSE calls[c].fromBlock

\* The fromBlock parameter the continuation of c's invocation closes over.
fromBlockOf(c) == calls[c].fromBlock

\* getBlocks(fromBlock, toBlock) up to `await this.request(batch)`.
getBlocks(c, fromBlock, toBlock) ==
    /\ calls[c].pc # "awaiting"
    /\ LET batch == getBlocksBatch(fromBlock, toBlock)
       IN  /\ calls' = [calls EXCEPT ![c] =
                 [Idle EXCEPT !.pc = "awaiting", !.method = "getBlocks",
                              !.fromBlock = fromBlock, !.toBlock = toBlock,
                              !.sent = <<batch>>]]
           /\ mock' = MockSees("getBlocks", batch)

\* getBlocksFromArray(blockNumbers) up to `await this.request(batch)`.
getBlocksFromArray(c, blockNumbers) ==
    /\ calls[c].pc # "awaiting"
    /\ LET batch == getBlocksFromArrayBatch(blockNumbers)
       IN  /\ calls' = [calls EXCEPT ![c] =
                 [Idle EXCEPT !.pc = "awaiting", !.method = "getBlocksFromArray",
                              !.blockNumbers = blockNumbers,
                              !.sent = <<batch>>]]
           /\ mock' = MockSees("getBlocksFromArray", batch)

\* this.request(batch) rejects: the await rethrows into the caller's promise.
requestRejects(c) ==
    /\ calls[c].pc = "awaiting"
    /\ calls' = [calls EXCEPT ![c].pc = "rejected",
                              ![c].reason = TransportFailure]
    /\ UNCHANGED mock

\* What the caller sees of a settled promise.
Outcome(out) == [pc |-> out.pc, value |-> out.value, reason |-> out.reason]

\* The invocation of c once its continuation has run on `responses`.
Settled(c, responses, canned, out) ==
    [calls[c] EXCEPT !.pc = out.pc, !.value = out.value, !.reason = out.reason,
                     !.answered = TRUE, !.handed = responses,
                     !.served = IF canned THEN mock.served ELSE 0,
                     !.first = IF canned THEN mock.first ELSE NoOutcome]

\* The promise of c settles as `out`; a mock keeps the response objects as the
\* continuation left them.
Settle(c, responses, canned, out) ==
    /\ calls' = [calls EXCEPT ![c] = Settled(c, responses, canned, out)]
    /\ mock' = IF canned
               THEN MockServed(c, out.responses, Outcome(out))
               ELSE mock

\* this.request(batch) resolves with `responses`; getBlocks runs on to its
\* return or throw.
getBlocksResume(c, responses, canned) ==
    /\ calls[c].pc = "awaiting"
    /\ calls[c].method = "getBlocks"
    /\ Settle(c, responses, canned,
              getBlocksContinue(fromBlockOf(c), responses))

\* this.request(batch) resolves with `responses`; getBlocksFromArray runs on to
\* its return or throw.
getBlocksFromArrayResume(c, responses, canned) ==
    /\ calls[c].pc = "awaiting"
    /\ calls[c].method = "getBlocksFromArray"
    /\ Settle(c, responses, canned, getBlocksFromArrayContinue(responses))

\* The block lists of length n over ListBlocks.
BlockLists(n) == [1..n -> ListBlocks]

\* One caller that awaits each invocation before the next; the transport is
\* the node or a mock that hands its canned response back.
Next ==
    \/ \E fromBlock \in Starts, n \in 0..MaxLen :
          getBlocks("c1", fromBlock, fromBlock + n)
    \/ \E n \in 0..MaxLen : \E blockNumbers \in BlockLists(n) :
          getBlocksFromArray("c1", blockNumbers)
    \/ requestRejects("c1")
    \/ \E canned \in BOOLEAN :
          \E responses \in TransportAnswers("c1", canned, MaxLogs) :
             getBlocksResume("c1", responses, canned)
    \/ \E canned \in BOOLEAN :
          \E responses \in TransportAnswers("c1", canned, MaxLogs) :
             getBlocksFromArrayResume("c1", responses, canned)

Spec == Init /\ [][Next]_vars


\* What the node may resolve the pending batch of caller c with when every
\* request succeeds.
NodeAnswers(c, budget) ==
    IF calls[c].pc # "awaiting"
    THEN {}
    ELSE Answers(calls[c].sent[1], 1, budget)

\* Two callers whose invocations are in flight together; every batch call
\* fails as a whole or is answered by the node with a response of its own.
NextConcurrent ==
    \/ \E c \in Callers, fromBlock \in Starts, n \in 0..MaxConcurrent :
          getBlocks(c, fromBlock, fromBlock + n)
    \/ \E c \in Callers, n \in 0..MaxConcurrent :
          \E blockNumbers \in BlockLists(n) :
             getBlocksFromArray(c, blockNumbers)
    \/ \E c \in Callers : requestRejects(c)
    \/ \E c \in Callers :
          \E responses \in NodeAnswers(c, MaxConcurrent) :
             getBlocksResume(c, responses, FALSE)
    \/ \E c \in Callers :
          \E responses \in NodeAnswers(c, MaxConcurrent) :
             getBlocksFromArrayResume(c, responses, FALSE)

SpecConcurrent == Init /\ [][NextConcurrent]_vars

-----------------------------------------------------------------------------
(* Properties *)

\* The invocation of c is a getBlocks whose batch the transport answered.
GetBlocksAnswered(c) ==
    calls[c].method = "getBlocks" /\ calls[c].answered

\* The invocation of c is a getBlocksFromArray whose batch was answered.
FromArrayAnswered(c) ==
    calls[c].method = "getBlocksFromArray" /\ calls[c].answered

RangeLen(c) == calls[c].toBlock - calls[c].fromBlock

HasResult(res) == "result" \in DOMAIN res

\* s is '0x' and then the base-16 numeral of n (with its minus sign).
IsHexOf(s, n) ==
    /\ Len(s) >= 3 /\ s[1] = "0" /\ s[2] = "x"
    /\ LET body == SubSeq(s, 3, Len(s))
           digits == IF n < 0 THEN Tail(body) ELSE body
       IN  /\ n < 0 => body[1] = "-"
           /\ digits # <<>>
           /\ \A i \in 1..Len(digits) : DigitValue(digits[i], 16) >= 0
           /\ DigitsValue(digits, 16) = (IF n < 0 THEN 0 - n ELSE n)

\* The response handed to c has one element per request of a getBlocks batch.
ShapedForRange(c) == Len(calls[c].handed) = RangeLen(c) + 1

\* The logs element of the response handed to c.
LogsElement(c) == calls[c].handed[Len(calls[c].handed)]

\* The number of the block a log names.
LogBlock(log) == Quantity(log.blockNumber.s).n

\* The log names a block of c's range and carries the hash of the block the
\* response holds at that block's index.
Consistent(c, log) ==
    /\ LogBlock(log) \in calls[c].fromBlock..(calls[c].toBlock - 1)
    /\ HasResult(calls[c].handed[LogBlock(log) - calls[c].fromBlock + 1])
    /\ log.blockHash =
          calls[c].handed[LogBlock(log) - calls[c].fromBlock + 1].result.hash

\* The transport answered c's getBlocks in submission order with the block of
\* each requested number and with logs that are all consistent.
HonestAnswer(c) ==
    /\ GetBlocksAnswered(c)
    /\ ShapedForRange(c)
    /\ \A k \in 1..RangeLen(c) :
          /\ HasResult(calls[c].handed[k])
          /\ calls[c].handed[k].result.number.t = "string"
          /\ IsHexOf(calls[c].handed[k].result.number.s,
                     calls[c].fromBlock + k - 1)
    /\ HasResult(LogsElement(c))
    /\ \A i \in 1..Len(LogsElement(c).result.a) :
          Consistent(c, LogsElement(c).result.a[i])

Mismatch(c, i) ==
    LET log == LogsElement(c).result.a[i]
        index == LogBlock(log) - calls[c].fromBlock
    IN  /\ index \in 0..(RangeLen(c) - 1)
        /\ HasResult(calls[c].handed[index + 1])
        /\ log.blockHash # calls[c].handed[index + 1].result.hash

\* C2: if any log of the logs response has a blockHash different from the hash
\* of the block at index parseHex(log.blockNumber) - fromBlock, getBlocks
\* rejects and the caller receives no block sequence, however many earlier
\* logs were merged.
C2_MismatchRejects ==
    \A c \in Callers :
        ( /\ GetBlocksAnswered(c)
          /\ ShapedForRange(c)
          /\ HasResult(LogsElement(c))
          /\ \E i \in 1..Len(LogsElement(c).result.a) : Mismatch(c, i) )
        => /\ calls[c].pc = "rejected"
           /\ calls[c].value = <<>>

C2_Witness ==
    \E c \in Callers :
        /\ GetBlocksAnswered(c)
        /\ ShapedForRange(c)
        /\ HasResult(LogsElement(c))
        /\ Len(LogsElement(c).result.a) = 2
        /\ Consistent(c, LogsElement(c).result.a[1])
        /\ Mismatch(c, 2)
        /\ calls[c].pc = "rejected"
        /\ calls[c].reason = MismatchError

RECURSIVE LogsOfBlock(_, _)
\* The logs of the array that name block n, in the array's order.
LogsOfBlock(logs, n) ==
    IF logs = <<>>
    THEN <<>>
    ELSE (IF LogBlock(Head(logs)) = n THEN <<Head(logs)>> ELSE <<>>)
         \o LogsOfBlock(Tail(logs), n)

\* The logs a returned block carries: none when the field is absent.
CarriedLogs(block) == IF block.logs.t = "array" THEN block.logs.a ELSE <<>>

\* The response handed to c is as the node returns it: every block element is
\* a block that has no logs field yet, and every log is consistent.
NodeAnswerWithConsistentLogs(c) ==
    /\ GetBlocksAnswered(c)
    /\ ShapedForRange(c)
    /\ \A k \in 1..RangeLen(c) :
          /\ HasResult(calls[c].handed[k])
          /\ IsUndefined(calls[c].handed[k].result.logs)
    /\ HasResult(LogsElement(c))
    /\ \A i \in 1..Len(LogsElement(c).result.a) :
          Consistent(c, LogsElement(c).result.a[i])

\* C3: when every returned log names a block of [fromBlock, toBlock) and
\* carries the hash of the corresponding block, every log is in the logs of
\* exactly the block at index parseHex(log.blockNumber) - fromBlock, none is
\* dropped or duplicated, and each block's logs keep their arrival order.
C3_LogsMergedInOrder ==
    \A c \in Callers :
        NodeAnswerWithConsistentLogs(c) =>
            /\ calls[c].pc = "fulfilled"
            /\ Len(calls[c].value) = RangeLen(c)
            /\ \A k \in 1..RangeLen(c) :
                  CarriedLogs(calls[c].value[k]) =
                     LogsOfBlock(LogsElement(c).result.a,
                                 calls[c].fromBlock + k - 1)

C3_Witness ==
    \E c \in Callers :
        /\ NodeAnswerWithConsistentLogs(c)
        /\ RangeLen(c) = 2
        /\ Len(CarriedLogs(calls[c].value[2])) = 2
        /\ calls[c].pc = "fulfilled"

\* C4: every block getBlocks returns has its logs field populated with a
\* sequence, the empty one for a block no returned log belongs to.
C4_LogsAlwaysPopulated ==
    \A c \in Callers :
        (GetBlocksAnswered(c) /\ calls[c].pc = "fulfilled") =>
            \A k \in 1..Len(calls[c].value) :
                calls[c].value[k].logs.t = "array"

\* C5: if the batch call fails, or the response holds an error element in
\* place of a result, getBlocks and getBlocksFromArray reject with that
\* transport error unchanged, and no second batch is issued.
C5_TransportErrorPropagated ==
    \A c \in Callers :
        /\ (calls[c].pc = "rejected" /\ ~calls[c].answered) =>
              calls[c].reason = TransportFailure
        /\ (calls[c].answered
            /\ \E k \in 1..Len(calls[c].handed) :
                  calls[c].handed[k] = ErrorElement) =>
              /\ calls[c].pc = "rejected"
              /\ calls[c].reason = RpcError
        /\ calls[c].pc # "idle" => Len(calls[c].sent) = 1

C7_FromArrayBatch ==
    \A c \in Callers :
        calls[c].method = "getBlocksFromArray" =>
            /\ Len(calls[c].sent) = 1
            /\ Len(calls[c].sent[1]) = 2 * Len(calls[c].blockNumbers)
            /\ \A k \in 1..Len(calls[c].blockNumbers) :
                  /\ calls[c].sent[1][2 * k - 1].method = "eth_getBlockByNumber"
                  /\ IsHexOf(calls[c].sent[1][2 * k - 1].params[1].s,
                             calls[c].blockNumbers[k])
                  /\ calls[c].sent[1][2 * k - 1].params[2] = Bool(TRUE)
                  /\ calls[c].sent[1][2 * k].method = "eth_getLogs"
                  /\ Len(calls[c].sent[1][2 * k].params) = 1
                  /\ IsHexOf(calls[c].sent[1][2 * k].params[1].fromBlock,
                             calls[c].blockNumbers[k])
                  /\ IsHexOf(calls[c].sent[1][2 * k].params[1].toBlock,
                             calls[c].blockNumbers[k])

C7_Witness ==
    \E c \in Callers :
        /\ calls[c].method = "getBlocksFromArray"
        /\ calls[c].pc = "fulfilled"
        /\ calls[c].blockNumbers = <<16, 15>>

\* C8: repeating getBlocks with the same arguments against the same response
\* the transport handed back for the first call yields a result identical to
\* the first call's: nothing accumulated or converted again.
C8_RepeatIsIdentical ==
    \A c \in Callers :
        (GetBlocksAnswered(c) /\ calls[c].served >= 1) =>
            /\ calls[c].pc = calls[c].first.pc
            /\ calls[c].value = calls[c].first.value
            /\ calls[c].reason = calls[c].first.reason

\* C9: for a batch response of 2n elements in submission order,
\* getBlocksFromArray resolves with exactly n blocks, the k-th built from
\* response 2k and carrying as its logs exactly the result of response 2k+1;
\* no hash is compared, so a hash mismatch never rejects.
C9_PairsInOrder ==
    \A c \in Callers :
        ( /\ FromArrayAnswered(c)
          /\ Len(calls[c].handed) = 2 * Len(calls[c].blockNumbers)
          /\ \A k \in 1..Len(calls[c].blockNumbers) :
                HasResult(calls[c].handed[2 * k - 1]) )
        => /\ calls[c].pc = "fulfilled"
           /\ Len(calls[c].value) = Len(calls[c].blockNumbers)
           /\ \A k \in 1..Len(calls[c].blockNumbers) :
                 /\ calls[c].value[k].hash =
                       calls[c].handed[2 * k - 1].result.hash
                 /\ calls[c].value[k].number =
                       parseInt(calls[c].handed[2 * k - 1].result.number, 16)
                 /\ calls[c].value[k].timestamp =
                       parseInt(calls[c].handed[2 * k - 1].result.timestamp, 16)
                 /\ calls[c].value[k].logs = Result(calls[c].handed[2 * k])

C9_Witness ==
    \E c \in Callers :
        /\ FromArrayAnswered(c)
        /\ calls[c].blockNumbers = <<15, 16>>
        /\ calls[c].pc = "fulfilled"
        /\ HasResult(calls[c].handed[2])
        /\ calls[c].handed[2].result.a = <<>>
        /\ HasResult(calls[c].handed[4])
        /\ Len(calls[c].handed[4].result.a) >= 1
        /\ calls[c].handed[4].result.a[1].blockHash # calls[c].value[2].hash

\* What the invocation of c yields when it runs alone on the response it was
\* handed.
Alone(c) ==
    IF calls[c].method = "getBlocks"
    THEN Outcome(getBlocksContinue(calls[c].fromBlock, calls[c].handed))
    ELSE Outcome(getBlocksFromArrayContinue(calls[c].handed))

=============================================================================
